---- MODULE Spec2Model ----
(***************************************************************************)
(* Model of src/hbsknowledgesheet.py: one run of fetch_and_upload pages    *)
(* the search API, drops the hits whose id is in the set read from the     *)
(* sheet at the start of the run, and appends the rest in one batch.       *)
(*                                                                         *)
(* A process p runs fetch_and_upload again and again.  Under Spec only     *)
(* process 1 runs, so the runs are strictly sequential.                    *)
(***************************************************************************)
EXTENDS Integers, Sequences, FiniteSets, TLC

\* ------------------------------------------------------------ constants
page_size == 10
max_articles == 50

\* ------------------------------------------------------------ bounds
\* Truthy identifiers that the newest hits and the initial rows draw from.
MaxId == 1
\* Number of hits the API lists ahead of its full pages.
MaxHead == 2
\* Rows in the sheet before the first run.
MaxInitRows == 1
\* Runs of fetch_and_upload in one behaviour.
MaxRuns == 2

Procs == {1, 2}
SeqProcs == {1}

\* A missing or falsy identifier: hit.get("id") is None or "", a blank cell.
Falsy == 0
Truthy(v) == v # Falsy

\* ------------------------------------------------------------ the API
\* The identifiers of the hits on the API's full pages: 1, 2, 3, ...
RECURSIVE Block(_)
Block(n) == IF n = 0 THEN << >> ELSE Append(Block(n - 1), [id |-> n])

HeadIds == 0..MaxId

RECURSIVE SeqsUpTo(_, _)
SeqsUpTo(S, n) ==
    IF n = 0 THEN { << >> }
    ELSE LET shorter == SeqsUpTo(S, n - 1)
         IN  shorter \cup { Append(s, x) : s \in { t \in shorter : Len(t) = n - 1 }, x \in S }

Heads == SeqsUpTo({ [id |-> i] : i \in HeadIds }, MaxHead)

\* The result lists the API may hold: a few newest hits (any identifiers,
\* repeated or falsy ones included) followed by 0..5 full pages of hits.
ApiResults ==
    { h \o Block(n * page_size) : h \in Heads, n \in 0..(max_articles \div page_size) }

Min(a, b) == IF a < b THEN a ELSE b

\* GET ...?from={offset}&size={page_size}: the slice of the result list.
Page(res, off) == SubSeq(res, off + 1, Min(off + page_size, Len(res)))

\* Mutant of Offsets: range(0, max_articles + 1, page_size), one page more.
OffsetsOneMore == { o \in 0..max_articles : o % page_size = 0 }

\* range(0, max_articles, page_size)
Offsets == { o \in 0..(max_articles - 1) : o % page_size = 0 }

\* ------------------------------------------------------------ the sheet
DistinctTruthy(rows) ==
    \A i, j \in 1..Len(rows) :
        (i # j /\ Truthy(rows[i].ObjectID)) => rows[i].ObjectID # rows[j].ObjectID

InitStores ==
    { s \in SeqsUpTo({ [ObjectID |-> i] : i \in 0..MaxId }, MaxInitRows) : DistinctTruthy(s) }

\* Mutant of get_existing_object_ids: the `if row.get("Object ID")` is dropped.
get_existing_object_ids_unfiltered(sheet) ==
    { sheet[i].ObjectID : i \in 1..Len(sheet) }

\* {row["Object ID"] for row in records if row.get("Object ID")}
get_existing_object_ids(sheet) ==
    { sheet[i].ObjectID : i \in { j \in 1..Len(sheet) : Truthy(sheet[j].ObjectID) } }

\* Mutant of append_rows: the rows are inserted above the rows already there.
append_rows_on_top(sheet, rows) == rows \o sheet

\* sheet.append_rows(rows): the rows go after the rows already there.
append_rows(sheet, rows) == sheet \o rows

\* ------------------------------------------------------------ the mapper
\* The row of a hit; of its 11 columns only Object ID decides what a run does.
build_article_row(hit) == [ObjectID |-> hit.id]

\* Mutant of NewHits: the membership test of line 129 is dropped.
NewHitsUnfiltered(hits, existing) == hits

\* Mutant of NewHits: `in` instead of `not in` at line 129.
NewHitsKnownOnly(hits, existing) == SelectSeq(hits, LAMBDA h : h.id \in existing)

\* for hit in hits: if hit.get("id") not in existing_ids: ...
NewHits(hits, existing) == SelectSeq(hits, LAMBDA h : h.id \notin existing)

RowsOf(hits) == [i \in 1..Len(hits) |-> build_article_row(hits[i])]

\* ------------------------------------------------------------ the mapper's fields
\* Topics in a topic list, and characters of a date text.
MaxTopics == 2
MaxDateParts == 2

all_valid_categories ==
    { "Accounting", "Advertising", "AI at Work", "Artificial Intelligence",
      "Strategy", "Leadership", "Not Defined" }

\* A Python value of a topic list: a str, or something that is no str.
Str(s) == [str |-> TRUE, val |-> s]
NonStr == [str |-> FALSE, val |-> "7"]
TopicEntries == { Str("Strategy"), Str("Leadership"), Str("Not Defined"), Str("Podcast"), NonStr }

\* The value of hit.get("topic", []): None, or a list.
NoneTopics == [kind |-> "none", items |-> << >>]
ListTopics(l) == [kind |-> "list", items |-> l]
TopicValues == { NoneTopics } \cup { ListTopics(l) : l \in SeqsUpTo(TopicEntries, MaxTopics) }

StrVals(l) == [i \in 1..Len(l) |-> l[i].val]

\* Mutant of normalize_categories: the isinstance filter of line 58 is dropped.
normalize_categories_unfiltered(topics) ==
    IF topics.kind = "none" \/ topics.items = << >>
    THEN [allowed |-> << "Not Defined" >>, new |-> << >>]
    ELSE LET cleaned == topics.items
             allowed == SelectSeq(cleaned, LAMBDA t : t.val \in all_valid_categories)
             new     == SelectSeq(cleaned, LAMBDA t : t.val \notin all_valid_categories)
         IN  [ allowed |-> IF allowed = << >> THEN << "Not Defined" >> ELSE StrVals(allowed),
               new     |-> StrVals(new) ]

\* Mutant of normalize_categories: line 61 returns allowed without the default.
normalize_categories_no_default(topics) ==
    IF topics.kind = "none" \/ topics.items = << >>
    THEN [allowed |-> << "Not Defined" >>, new |-> << >>]
    ELSE LET cleaned == SelectSeq(topics.items, LAMBDA t : t.str)
             allowed == SelectSeq(cleaned, LAMBDA t : t.val \in all_valid_categories)
             new     == SelectSeq(cleaned, LAMBDA t : t.val \notin all_valid_categories)
         IN  [ allowed |-> StrVals(allowed), new |-> StrVals(new) ]

\* normalize_categories(topics), lines 55-61.
normalize_categories(topics) ==
    IF topics.kind = "none" \/ topics.items = << >>
    THEN [allowed |-> << "Not Defined" >>, new |-> << >>]
    ELSE LET cleaned == SelectSeq(topics.items, LAMBDA t : t.str)
             allowed == SelectSeq(cleaned, LAMBDA t : t.val \in all_valid_categories)
             new     == SelectSeq(cleaned, LAMBDA t : t.val \notin all_valid_categories)
         IN  [ allowed |-> IF allowed = << >> THEN << "Not Defined" >> ELSE StrVals(allowed),
               new     |-> StrVals(new) ]

\* ", ".join(l)
RECURSIVE Join(_)
Join(l) ==
    IF l = << >> THEN ""
    ELSE IF Len(l) = 1 THEN l[1]
    ELSE l[1] \o ", " \o Join(Tail(l))

\* A date text is a sequence of parts; the text is their concatenation.
IsoTexts == { "2023-05-01T00:00:00" }
DateParts == IsoTexts \cup { "Z", "not-a-date" }

\* The value of a date field: None, a str (text << >> is ""), or a number.
NoneDate == [type |-> "none", text |-> << >>]
StrDate(t) == [type |-> "str", text |-> t]
IntDate == [type |-> "int", text |-> << >>]
DateValues == { NoneDate, IntDate } \cup { StrDate(t) : t \in SeqsUpTo(DateParts, MaxDateParts) }

\* bool(v) for a date value; the number is not 0.
TruthyDate(v) == v.type = "int" \/ (v.type = "str" /\ v.text # << >>)

\* date_str.replace("Z", "")
replace_Z(text) == SelectSeq(text, LAMBDA c : c # "Z")

\* datetime.fromisoformat(text) returns for an ISO text and raises otherwise.
fromisoformat_ok(text) == Len(text) = 1 /\ text[1] \in IsoTexts

\* .date().isoformat()
date_isoformat(text) == IF text[1] = "2023-05-01T00:00:00" THEN "2023-05-01" ELSE ""

\* The value of hit.get("display", {}): the key is absent, null, or a dict
\* whose "date" is a date value.
DisplayValues ==
    { [kind |-> "absent", date |-> NoneDate], [kind |-> "null", date |-> NoneDate] }
        \cup { [kind |-> "dict", date |-> d] : d \in DateValues }

\* A hit as the mapper reads it: its id, its two date fields and its topics.
MapperHit(sd, dp, tp) == [id |-> 1, sortDate |-> sd, display |-> dp, topic |-> tp]

NoLine == 0

\* Line 66: hit.get("sortDate") or hit.get("display", {}).get("date").  The
\* second operand is evaluated when sortDate is falsy, and None.get raises.
date_str_raises(hit) == ~TruthyDate(hit.sortDate) /\ hit.display.kind = "null"

date_str(hit) ==
    IF TruthyDate(hit.sortDate) THEN hit.sortDate
    ELSE IF hit.display.kind = "dict" THEN hit.display.date
    ELSE NoneDate

\* Lines 67-70: every exception of the parse is caught.
date_iso(ds) ==
    IF ~TruthyDate(ds) THEN ""
    ELSE IF ds.type # "str" THEN ""
    ELSE IF fromisoformat_ok(replace_Z(ds.text)) THEN date_isoformat(replace_Z(ds.text))
    ELSE ""

Raised(line) ==
    [raised |-> TRUE, line |-> line, PublicationDate |-> "", Category |-> "",
     NewCategory |-> "", ObjectID |-> Falsy]

\* build_article_row(hit) with the columns that the date and the topics
\* decide, lines 63-99; line 81 reads hit.get("display", {}).get(...) for
\* every hit.
BuildRow(hit) ==
    IF date_str_raises(hit) THEN Raised(66)
    ELSE IF hit.display.kind = "null" THEN Raised(81)
    ELSE LET cats == normalize_categories(hit.topic)
         IN  [ raised          |-> FALSE,
               line            |-> NoLine,
               PublicationDate |-> date_iso(date_str(hit)),
               Category        |-> Join(cats.allowed),
               NewCategory     |-> IF cats.new # << >> THEN Join(cats.new) ELSE "",
               ObjectID        |-> build_article_row(hit).ObjectID ]

NoCats == [allowed |-> << >>, new |-> << >>]
NoHit == [id |-> Falsy, sortDate |-> NoneDate, display |-> [kind |-> "absent", date |-> NoneDate],
          topic |-> NoneTopics]
NoMapper == [pc |-> "idle", hit |-> NoHit, cats |-> NoCats, out |-> Raised(NoLine)]

\* ------------------------------------------------------------ state
VARIABLES
    results,            \* the API's result list, newest first
    store,              \* the sheet's rows
    runs,               \* runs started so far
    pc,                 \* pc[p]: the phase of p's run
    existing_ids,       \* existing_ids[p]
    articles_checked,   \* articles_checked[p]
    batch_to_append,    \* batch_to_append[p]
    offset,             \* offset[p]: the loop variable of the paging loop
    log,                \* log[p]: what p's run has done so far
    prev,               \* prev[p]: how p's previous run went
    mapper              \* a call of build_article_row outside a run: its hit and result

vars == << results, store, runs, pc, existing_ids, articles_checked,
           batch_to_append, offset, log, prev, mapper >>

NoOffset == 0 - 1

EmptyLog(sheet) ==
    [ storeAtStart  |-> sheet,     \* the sheet when the run began
      indexReads    |-> 0,         \* calls of get_all_records
      requested     |-> << >>,     \* offsets of the page requests, in order
      appended      |-> << >>,     \* arguments of the append_rows calls, in order
      connectError  |-> "none",
      readFailed    |-> FALSE,
      fetchFailedAt |-> NoOffset,  \* offset of the request that failed
      emptyAt       |-> NoOffset,  \* offset of the request that returned no hits
      uploadFailed  |-> FALSE ]

NoPrev == [ran |-> FALSE, completed |-> FALSE, requested |-> << >>, fetchFailedAt |-> NoOffset]

Terminal == {"DONE", "FAILED", "ABORTED"}

Init ==
    /\ results \in ApiResults
    /\ store \in InitStores
    /\ runs = 0
    /\ pc = [p \in Procs |-> "INIT"]
    /\ existing_ids = [p \in Procs |-> {}]
    /\ articles_checked = [p \in Procs |-> 0]
    /\ batch_to_append = [p \in Procs |-> << >>]
    /\ offset = [p \in Procs |-> 0]
    /\ log = [p \in Procs |-> EmptyLog(store)]
    /\ prev = [p \in Procs |-> NoPrev]
    /\ mapper = NoMapper

\* ------------------------------------------------------------ one run
\* fetch_and_upload() is called (line 101).
Start(p) ==
    /\ pc[p] = "INIT"
    /\ runs < MaxRuns
    /\ runs' = runs + 1
    /\ pc' = [pc EXCEPT ![p] = "CONNECTING"]
    /\ log' = [log EXCEPT ![p] = EmptyLog(store)]
    /\ UNCHANGED << mapper, results, store, existing_ids, articles_checked,
                    batch_to_append, offset, prev >>

\* init_sheet() returns the worksheet (lines 104, 31-47).
ConnectOk(p) ==
    /\ pc[p] = "CONNECTING"
    /\ pc' = [pc EXCEPT ![p] = "INDEXING"]
    /\ UNCHANGED << mapper, results, store, runs, existing_ids, articles_checked,
                    batch_to_append, offset, log, prev >>

\* init_sheet() raises: the variable is not set, its JSON is invalid, or
\* authorising or opening the sheet fails.  Logged, and the run returns.
ConnectErrors == {"not_set", "invalid_json", "connection"}

\* Mutant of ConnectFail: the error is logged and the run goes on.
ConnectFailContinues(p) ==
    /\ pc[p] = "CONNECTING"
    /\ \E e \in ConnectErrors :
           log' = [log EXCEPT ![p].connectError = e]
    /\ pc' = [pc EXCEPT ![p] = "INDEXING"]
    /\ UNCHANGED << mapper, results, store, runs, existing_ids, articles_checked,
                    batch_to_append, offset, prev >>

ConnectFail(p) ==
    /\ pc[p] = "CONNECTING"
    /\ \E e \in ConnectErrors :
           log' = [log EXCEPT ![p].connectError = e]
    /\ pc' = [pc EXCEPT ![p] = "FAILED"]
    /\ UNCHANGED << mapper, results, store, runs, existing_ids, articles_checked,
                    batch_to_append, offset, prev >>

\* existing_ids = get_existing_object_ids(sheet), then lines 111-114 and the
\* first value of the loop variable.
IndexOk(p) ==
    /\ pc[p] = "INDEXING"
    /\ existing_ids' = [existing_ids EXCEPT ![p] = get_existing_object_ids(store)]
    /\ articles_checked' = [articles_checked EXCEPT ![p] = 0]
    /\ batch_to_append' = [batch_to_append EXCEPT ![p] = << >>]
    /\ offset' = [offset EXCEPT ![p] = 0]
    /\ log' = [log EXCEPT ![p].indexReads = @ + 1]
    /\ pc' = [pc EXCEPT ![p] = "PAGING"]
    /\ UNCHANGED << mapper, results, store, runs, prev >>

\* sheet.get_all_records() raises: line 109 is outside every try block, so the
\* exception leaves fetch_and_upload.
IndexFail(p) ==
    /\ pc[p] = "INDEXING"
    /\ log' = [log EXCEPT ![p].indexReads = @ + 1, ![p].readFailed = TRUE]
    /\ pc' = [pc EXCEPT ![p] = "ABORTED"]
    /\ UNCHANGED << mapper, results, store, runs, existing_ids, articles_checked,
                    batch_to_append, offset, prev >>

\* Mutant of FetchFail: return instead of break.
FetchFailEndsRun(p) ==
    /\ pc[p] = "PAGING"
    /\ log' = [log EXCEPT ![p].requested = Append(@, offset[p]),
                          ![p].fetchFailedAt = offset[p]]
    /\ pc' = [pc EXCEPT ![p] = "FAILED"]
    /\ UNCHANGED << mapper, results, store, runs, existing_ids, articles_checked,
                    batch_to_append, offset, prev >>

\* requests.get or raise_for_status raises RequestException: logged, break.
FetchFail(p) ==
    /\ pc[p] = "PAGING"
    /\ log' = [log EXCEPT ![p].requested = Append(@, offset[p]),
                          ![p].fetchFailedAt = offset[p]]
    /\ pc' = [pc EXCEPT ![p] = "UPLOADING"]
    /\ UNCHANGED << mapper, results, store, runs, existing_ids, articles_checked,
                    batch_to_append, offset, prev >>

\* Mutant of FetchEmpty: continue instead of break.
FetchEmptyContinues(p) ==
    /\ pc[p] = "PAGING"
    /\ Page(results, offset[p]) = << >>
    /\ log' = [log EXCEPT ![p].requested = Append(@, offset[p]),
                          ![p].emptyAt = offset[p]]
    /\ IF (offset[p] + page_size) \in Offsets
       THEN /\ pc' = pc
            /\ offset' = [offset EXCEPT ![p] = @ + page_size]
       ELSE /\ pc' = [pc EXCEPT ![p] = "UPLOADING"]
            /\ offset' = offset
    /\ UNCHANGED << mapper, results, store, runs, existing_ids, articles_checked,
                    batch_to_append, prev >>

\* The page has no hits: "No more articles found", break.
FetchEmpty(p) ==
    /\ pc[p] = "PAGING"
    /\ Page(results, offset[p]) = << >>
    /\ log' = [log EXCEPT ![p].requested = Append(@, offset[p]),
                          ![p].emptyAt = offset[p]]
    /\ pc' = [pc EXCEPT ![p] = "UPLOADING"]
    /\ UNCHANGED << mapper, results, store, runs, existing_ids, articles_checked,
                    batch_to_append, offset, prev >>

\* Mutant of LastPage: the loop runs for one value more than range() gives.
LastPageOneMore(checked, off) ==
    \/ checked >= max_articles
    \/ (off + page_size) \notin (Offsets \cup { max_articles })

\* After a page: break when the count has reached max_articles (line 133),
\* and the loop ends by itself after the last value of range().
LastPage(checked, off) ==
    \/ checked >= max_articles
    \/ (off + page_size) \notin Offsets

\* Mutant of FetchHits: the counter counts every hit of the page, known or not.
FetchHitsCountsAll(p) ==
    /\ pc[p] = "PAGING"
    /\ Page(results, offset[p]) # << >>
    /\ LET fresh   == NewHits(Page(results, offset[p]), existing_ids[p])
           checked == articles_checked[p] + Len(Page(results, offset[p]))
       IN  /\ batch_to_append' = [batch_to_append EXCEPT ![p] = @ \o RowsOf(fresh)]
           /\ articles_checked' = [articles_checked EXCEPT ![p] = checked]
           /\ IF LastPage(checked, offset[p])
              THEN /\ pc' = [pc EXCEPT ![p] = "UPLOADING"]
                   /\ offset' = offset
              ELSE /\ pc' = pc
                   /\ offset' = [offset EXCEPT ![p] = @ + page_size]
    /\ log' = [log EXCEPT ![p].requested = Append(@, offset[p])]
    /\ UNCHANGED << mapper, results, store, runs, existing_ids, prev >>

\* The page has hits: the loop of lines 128-131, then the check of line 133.
FetchHits(p) ==
    /\ pc[p] = "PAGING"
    /\ Page(results, offset[p]) # << >>
    /\ LET fresh   == NewHits(Page(results, offset[p]), existing_ids[p])
           checked == articles_checked[p] + Len(fresh)
       IN  /\ batch_to_append' = [batch_to_append EXCEPT ![p] = @ \o RowsOf(fresh)]
           /\ articles_checked' = [articles_checked EXCEPT ![p] = checked]
           /\ IF LastPage(checked, offset[p])
              THEN /\ pc' = [pc EXCEPT ![p] = "UPLOADING"]
                   /\ offset' = offset
              ELSE /\ pc' = pc
                   /\ offset' = [offset EXCEPT ![p] = @ + page_size]
    /\ log' = [log EXCEPT ![p].requested = Append(@, offset[p])]
    /\ UNCHANGED << mapper, results, store, runs, existing_ids, prev >>

\* if batch_to_append: sheet.append_rows(batch_to_append) returns.
UploadOk(p) ==
    /\ pc[p] = "UPLOADING"
    /\ batch_to_append[p] # << >>
    /\ store' = append_rows(store, batch_to_append[p])
    /\ log' = [log EXCEPT ![p].appended = Append(@, batch_to_append[p])]
    /\ pc' = [pc EXCEPT ![p] = "DONE"]
    /\ UNCHANGED << mapper, results, runs, existing_ids, articles_checked,
                    batch_to_append, offset, prev >>

\* Mutant of UploadFail: the run stays at the upload and tries again.
UploadFailRetries(p) ==
    /\ pc[p] = "UPLOADING"
    /\ batch_to_append[p] # << >>
    /\ Len(log[p].appended) < 2
    /\ log' = [log EXCEPT ![p].appended = Append(@, batch_to_append[p]),
                          ![p].uploadFailed = TRUE]
    /\ UNCHANGED << mapper, results, store, runs, pc, existing_ids, articles_checked,
                    batch_to_append, offset, prev >>

\* sheet.append_rows raises: logged, nothing written, the run returns.
UploadFail(p) ==
    /\ pc[p] = "UPLOADING"
    /\ batch_to_append[p] # << >>
    /\ log' = [log EXCEPT ![p].appended = Append(@, batch_to_append[p]),
                          ![p].uploadFailed = TRUE]
    /\ pc' = [pc EXCEPT ![p] = "FAILED"]
    /\ UNCHANGED << mapper, results, store, runs, existing_ids, articles_checked,
                    batch_to_append, offset, prev >>

\* Mutant of UploadSkip: append_rows is called with the empty batch.
UploadSkipAppends(p) ==
    /\ pc[p] = "UPLOADING"
    /\ batch_to_append[p] = << >>
    /\ store' = append_rows(store, batch_to_append[p])
    /\ log' = [log EXCEPT ![p].appended = Append(@, batch_to_append[p])]
    /\ pc' = [pc EXCEPT ![p] = "DONE"]
    /\ UNCHANGED << mapper, results, runs, existing_ids, articles_checked,
                    batch_to_append, offset, prev >>

\* else: "No new articles to upload."
UploadSkip(p) ==
    /\ pc[p] = "UPLOADING"
    /\ batch_to_append[p] = << >>
    /\ pc' = [pc EXCEPT ![p] = "DONE"]
    /\ UNCHANGED << mapper, results, store, runs, existing_ids, articles_checked,
                    batch_to_append, offset, log, prev >>

\* The run has returned; the script is started again (line 152).
NewRun(p) ==
    /\ pc[p] \in Terminal
    /\ runs < MaxRuns
    /\ prev' = [prev EXCEPT ![p] =
                   [ ran           |-> TRUE,
                     completed     |-> pc[p] = "DONE",
                     requested     |-> log[p].requested,
                     fetchFailedAt |-> log[p].fetchFailedAt ]]
    /\ pc' = [pc EXCEPT ![p] = "INIT"]
    /\ existing_ids' = [existing_ids EXCEPT ![p] = {}]
    /\ articles_checked' = [articles_checked EXCEPT ![p] = 0]
    /\ batch_to_append' = [batch_to_append EXCEPT ![p] = << >>]
    /\ offset' = [offset EXCEPT ![p] = 0]
    /\ log' = [log EXCEPT ![p] = EmptyLog(store)]
    /\ UNCHANGED << mapper, results, store, runs >>

Run(p) ==
    \/ Start(p)
    \/ ConnectOk(p)
    \/ ConnectFail(p)
    \/ IndexOk(p)
    \/ IndexFail(p)
    \/ FetchFail(p)
    \/ FetchEmpty(p)
    \/ FetchHits(p)
    \/ UploadOk(p)
    \/ UploadFail(p)
    \/ UploadSkip(p)
    \/ NewRun(p)

\* A single run: fetch_and_upload from its call to its return.
RunOnce(p) ==
    \/ Start(p)
    \/ ConnectOk(p)
    \/ ConnectFail(p)
    \/ IndexOk(p)
    \/ IndexFail(p)
    \/ FetchFail(p)
    \/ FetchEmpty(p)
    \/ FetchHits(p)
    \/ UploadOk(p)
    \/ UploadFail(p)
    \/ UploadSkip(p)

\* One process: the runs follow one another.
Next == \E p \in SeqProcs : Run(p)

Spec == Init /\ [][Next]_vars

\* One run of one process.  The script runs one statement after another and
\* every call returns or raises, so a run that can take a step takes it.
FairNext == \E p \in SeqProcs : RunOnce(p)

FairSpec == Init /\ [][FairNext]_vars /\ WF_vars(FairNext)

\* ------------------------------------------------------------ two runs at once
\* Two processes run fetch_and_upload once each against the same sheet; their
\* steps interleave.  The API lists every identifier once.
DistinctIds(res) == \A i, j \in 1..Len(res) : i # j => res[i].id # res[j].id

ConcInit == Init /\ DistinctIds(results)

ConcNext == \E p \in Procs : RunOnce(p)

ConcSpec == ConcInit /\ [][ConcNext]_vars

\* ------------------------------------------------------------ the mapper alone
\* build_article_row is applied to one hit; no run is going on.
MapperInit ==
    /\ results = << >>
    /\ store = << >>
    /\ runs = 0
    /\ pc = [p \in Procs |-> "INIT"]
    /\ existing_ids = [p \in Procs |-> {}]
    /\ articles_checked = [p \in Procs |-> 0]
    /\ batch_to_append = [p \in Procs |-> << >>]
    /\ offset = [p \in Procs |-> 0]
    /\ log = [p \in Procs |-> EmptyLog(<< >>)]
    /\ prev = [p \in Procs |-> NoPrev]
    /\ \E sd \in DateValues, dp \in DisplayValues, tp \in TopicValues :
           mapper = [pc |-> "called", hit |-> MapperHit(sd, dp, tp),
                     cats |-> NoCats, out |-> Raised(NoLine)]

\* allowed_cats, new_cats = normalize_categories(hit.get("topic", []))
Normalize ==
    /\ mapper.pc = "called"
    /\ mapper' = [mapper EXCEPT !.pc = "normalized",
                                !.cats = normalize_categories(mapper.hit.topic)]
    /\ UNCHANGED << results, store, runs, pc, existing_ids, articles_checked,
                    batch_to_append, offset, log, prev >>

\* build_article_row(hit) returns its row or raises.
Build ==
    /\ mapper.pc = "normalized"
    /\ mapper' = [mapper EXCEPT !.pc = "mapped", !.out = BuildRow(mapper.hit)]
    /\ UNCHANGED << results, store, runs, pc, existing_ids, articles_checked,
                    batch_to_append, offset, log, prev >>

MapperNext == Normalize \/ Build

MapperSpec == MapperInit /\ [][MapperNext]_vars

\* ------------------------------------------------------------ what a run saw
Last(s) == s[Len(s)]

\* The hits of the pages that the requests at offsets offs returned; the
\* request at offset failed returned none.
RECURSIVE HitsOf(_, _, _)
HitsOf(res, offs, failed) ==
    IF offs = << >> THEN << >>
    ELSE HitsOf(res, SubSeq(offs, 1, Len(offs) - 1), failed)
         \o (IF Last(offs) = failed THEN << >> ELSE Page(res, Last(offs)))

SeenHits(p) == HitsOf(results, log[p].requested, log[p].fetchFailedAt)

\* The rows a run has to have accumulated from the hits it has seen.
RowsDue(p) == RowsOf(SelectSeq(SeenHits(p), LAMBDA h : h.id \notin existing_ids[p]))

KnownSeen(p) == SelectSeq(SeenHits(p), LAMBDA h : h.id \in existing_ids[p])

PagingOver(p) == pc[p] \in {"UPLOADING", "DONE", "FAILED"} /\ log[p].connectError = "none"

Returned(p) == pc[p] \in {"DONE", "FAILED"}

\* ------------------------------------------------------------ claims

\* C1: the store never holds two rows with the same Object ID, whether one
\* run appended both or two runs did.  (Stated for the truthy identifiers;
\* the code breaks it: a hit listed twice is appended twice.)
C1_StoreObjectIdsUnique ==
    \A i, j \in 1..Len(store) :
        (i < j /\ Truthy(store[i].ObjectID)) => store[i].ObjectID # store[j].ObjectID

\* C2: idempotence.  When the previous run completed (upload succeeded or
\* nothing to upload) and this run has received the same responses from the
\* API, this run has nothing to append.  (The code breaks it for a hit whose
\* id is missing or falsy.)
SameResponses(p) ==
    /\ log[p].requested = prev[p].requested
    /\ log[p].fetchFailedAt = prev[p].fetchFailedAt

C2_SecondRunAppendsNothing ==
    \A p \in Procs :
        (prev[p].ran /\ prev[p].completed /\ PagingOver(p) /\ SameResponses(p))
            => batch_to_append[p] = << >>

\* C3: a hit whose id is in the index built at the start of the run gets no
\* row in the batch and is not counted, and no row with such an id is passed
\* to the append call.
C3_KnownHitsSkipped ==
    \A p \in Procs :
        /\ \A i \in 1..Len(batch_to_append[p]) :
               batch_to_append[p][i].ObjectID \notin existing_ids[p]
        /\ LET unknown == Len(SeenHits(p)) - Len(KnownSeen(p))
           IN  /\ articles_checked[p] <= unknown
               /\ Len(batch_to_append[p]) <= unknown
        /\ \A c \in 1..Len(log[p].appended) :
               \A i \in 1..Len(log[p].appended[c]) :
                   log[p].appended[c][i].ObjectID \notin existing_ids[p]

C3_Witness ==
    \E p \in Procs :
        /\ pc[p] = "DONE"
        /\ Len(log[p].appended) = 1
        /\ KnownSeen(p) # << >>

C5_FetchFailureKeepsBatch ==
    \A p \in Procs :
        log[p].fetchFailedAt # NoOffset =>
            /\ PagingOver(p)
            /\ Last(log[p].requested) = log[p].fetchFailedAt
            /\ batch_to_append[p] = RowsDue(p)
            /\ pc[p] = "FAILED" => log[p].uploadFailed
            /\ (Returned(p) /\ batch_to_append[p] # << >>) =>
                   log[p].appended = << batch_to_append[p] >>
            /\ pc[p] = "DONE" =>
                   store = log[p].storeAtStart \o batch_to_append[p]

C5_Witness ==
    \E p \in Procs :
        /\ log[p].fetchFailedAt > 0
        /\ pc[p] = "DONE"
        /\ batch_to_append[p] # << >>
        /\ store = log[p].storeAtStart \o batch_to_append[p]

\* C6: when connecting fails, the run ends in FAILED without an index read,
\* a page request or an append call, and the store is unchanged.
C6_ConnectFailureDoesNothing ==
    \A p \in Procs :
        log[p].connectError # "none" =>
            /\ pc[p] = "FAILED"
            /\ log[p].indexReads = 0
            /\ log[p].requested = << >>
            /\ log[p].appended = << >>
            /\ store = log[p].storeAtStart

C6_Witness ==
    \E p \in Procs :
        /\ log[p].connectError = "connection"
        /\ pc[p] = "FAILED"
        /\ prev[p].ran
        /\ store # << >>

\* C7: when the append call fails, the run makes no second attempt, the
\* store is what it was before the run, and the run has ended.
C7_UploadFailureNoRetry ==
    \A p \in Procs :
        log[p].uploadFailed =>
            /\ pc[p] = "FAILED"
            /\ Len(log[p].appended) = 1
            /\ store = log[p].storeAtStart

C7_Witness ==
    \E p \in Procs :
        /\ log[p].uploadFailed
        /\ pc[p] = "FAILED"
        /\ Len(batch_to_append[p]) >= 2
        /\ store = log[p].storeAtStart

\* C8: a run ends in a failed or aborted state only from CONNECTING or
\* UPLOADING; no failure during INDEXING or PAGING does that.  (The code
\* breaks it: a failing read of the sheet's rows is not caught.)
C8_FailsOnlyFromConnectingOrUploading ==
    \A p \in Procs :
        pc[p] \in {"FAILED", "ABORTED"} =>
            (log[p].connectError # "none" \/ log[p].uploadFailed)

\* C9: once the count of newly-seen hits reaches max_articles, paging has
\* stopped, and the batch and the rows passed to append never number more
\* than max_articles.
C9_BatchWithinMaximum ==
    \A p \in Procs :
        /\ Len(batch_to_append[p]) <= max_articles
        /\ articles_checked[p] <= max_articles
        /\ articles_checked[p] >= max_articles => pc[p] # "PAGING"
        /\ \A c \in 1..Len(log[p].appended) :
               Len(log[p].appended[c]) <= max_articles

C9_Witness ==
    \E p \in Procs :
        /\ articles_checked[p] = max_articles
        /\ pc[p] = "DONE"
        /\ Len(log[p].appended) = 1
        /\ Len(log[p].appended[1]) = max_articles

\* C10: when a page request returns no hits, the run requests no further
\* page, the empty page is not an error, and the rows of the earlier pages
\* are still uploaded by the append call.
C10_EmptyPageEndsPaging ==
    \A p \in Procs :
        log[p].emptyAt # NoOffset =>
            /\ PagingOver(p)
            /\ Last(log[p].requested) = log[p].emptyAt
            /\ log[p].fetchFailedAt = NoOffset
            /\ pc[p] = "FAILED" => log[p].uploadFailed
            /\ batch_to_append[p] = RowsDue(p)
            /\ (Returned(p) /\ batch_to_append[p] # << >>) =>
                   log[p].appended = << batch_to_append[p] >>
            /\ pc[p] = "DONE" =>
                   store = log[p].storeAtStart \o batch_to_append[p]

C10_Witness ==
    \E p \in Procs :
        /\ log[p].emptyAt > 0
        /\ pc[p] = "DONE"
        /\ batch_to_append[p] # << >>
        /\ store = log[p].storeAtStart \o batch_to_append[p]

\* C11: the batch is one row per examined hit whose id was not in the index,
\* in the order the API returned the hits, and the checked counter equals
\* the number of rows in the batch in every state of a run.
C11_CheckedEqualsBatch ==
    \A p \in Procs :
        /\ articles_checked[p] = Len(batch_to_append[p])
        /\ batch_to_append[p] = RowsDue(p)
        /\ Len(batch_to_append[p]) + Len(KnownSeen(p)) = Len(SeenHits(p))
        /\ Len(log[p].appended) = 1 => Len(log[p].appended[1]) = articles_checked[p]

C11_Witness ==
    \E p \in Procs :
        /\ pc[p] = "DONE"
        /\ Len(KnownSeen(p)) = 1
        /\ articles_checked[p] >= 2
        /\ Len(log[p].appended) = 1
        /\ Len(log[p].appended[1]) = articles_checked[p]

\* ------------------------------------------------------------ the mapper's claims
\* The entries of a topic list that are strings in the allow-list, and those
\* that are strings outside it, taken one entry at a time from the left.
RECURSIVE RefAllowed(_)
RefAllowed(l) ==
    IF l = << >> THEN << >>
    ELSE (IF Head(l).str /\ Head(l).val \in all_valid_categories
          THEN << Head(l).val >> ELSE << >>) \o RefAllowed(Tail(l))

RECURSIVE RefUnknown(_)
RefUnknown(l) ==
    IF l = << >> THEN << >>
    ELSE (IF Head(l).str /\ Head(l).val \notin all_valid_categories
          THEN << Head(l).val >> ELSE << >>) \o RefUnknown(Tail(l))

Elems(l) == { l[i] : i \in 1..Len(l) }

\* C12: normalize_categories is the reference partition: (['Not Defined'], [])
\* for an empty or absent input; otherwise allowed is the allow-listed
\* strings in order, or ['Not Defined'] when there are none, unknown is the
\* other strings in order, and every string entry is in exactly one list.
C12_NormalizeIsPartition ==
    mapper.pc \in {"normalized", "mapped"} =>
        LET items == mapper.hit.topic.items
            out   == mapper.cats
            strs  == { i \in 1..Len(items) : items[i].str }
        IN  /\ (mapper.hit.topic.kind = "none" \/ items = << >>) =>
                   out = [allowed |-> << "Not Defined" >>, new |-> << >>]
            /\ out.allowed = IF RefAllowed(items) = << >>
                             THEN << "Not Defined" >> ELSE RefAllowed(items)
            /\ out.new = RefUnknown(items)
            /\ Len(RefAllowed(items)) + Len(out.new) = Cardinality(strs)
            /\ \A i \in strs :
                   IF items[i].val \in all_valid_categories
                   THEN items[i].val \in Elems(out.allowed) /\ items[i].val \notin Elems(out.new)
                   ELSE items[i].val \in Elems(out.new) /\ items[i].val \notin Elems(out.allowed)

C12_Witness ==
    /\ mapper.pc = "normalized"
    /\ mapper.hit.topic.items = << Str("Podcast"), Str("Strategy") >>
    /\ mapper.cats = [allowed |-> << "Strategy" >>, new |-> << "Podcast" >>]

\* C13: the Category of every row that build_article_row returns is not
\* empty: it is the join of at least one name of the allow-list, which
\* holds 'Not Defined'.
ValidCategoryTexts ==
    { Join(l) : l \in SeqsUpTo(all_valid_categories, MaxTopics) \ { << >> } }

C13_CategoryNeverEmpty ==
    (mapper.pc = "mapped" /\ ~mapper.out.raised) =>
        /\ mapper.out.Category # ""
        /\ mapper.out.Category \in ValidCategoryTexts

C13_Witness ==
    /\ mapper.pc = "mapped"
    /\ ~mapper.out.raised
    /\ mapper.hit.topic.items = << NonStr, Str("Podcast") >>
    /\ mapper.out.Category = "Not Defined"
    /\ mapper.out.NewCategory = "Podcast"

\* The Publication Date that the claim asks for: the ISO date of the
\* selected date value when that value is a text that parses, "" otherwise.
ExpectedDate(hit) ==
    LET sel   == IF TruthyDate(hit.sortDate) THEN hit.sortDate
                 ELSE IF hit.display.kind = "dict" THEN hit.display.date
                 ELSE NoneDate
        kept  == { i \in 1..Len(sel.text) : sel.text[i] # "Z" }
    IN  IF sel.type = "str" /\ Cardinality(kept) = 1
           /\ (\A i \in kept : sel.text[i] \in IsoTexts)
        THEN "2023-05-01"
        ELSE ""

\* C14: the date handling never aborts the mapping: for every hit, a null
\* display included, no exception leaves the date lines and the row's
\* Publication Date is the ISO date when the selected value parses and ""
\* otherwise.  (The code breaks it: line 66 calls .get on a null display.)
C14_DateNeverAborts ==
    mapper.pc = "mapped" =>
        /\ ~(mapper.out.raised /\ mapper.out.line = 66)
        /\ ~mapper.out.raised => mapper.out.PublicationDate = ExpectedDate(mapper.hit)

\* ------------------------------------------------------------ the store and the index
\* C15: a run never modifies, reorders or deletes the rows in the store: a
\* step leaves the store alone or puts the batch of an uploading run after
\* its rows, and a run that has begun finds the store as it was at its start
\* or that followed by its batch.
C15_StoreOnlyGrowsByBatch ==
    /\ [][ \/ store' = store
           \/ \E p \in Procs : /\ pc[p] = "UPLOADING"
                               /\ pc'[p] = "DONE"
                               /\ store' = store \o batch_to_append[p] ]_vars
    /\ [](\A p \in Procs :
              pc[p] # "INIT" =>
                  \/ store = log[p].storeAtStart
                  \/ /\ pc[p] = "DONE"
                     /\ store = log[p].storeAtStart \o batch_to_append[p])

C15_Witness ==
    \E p \in Procs :
        /\ prev[p].ran
        /\ pc[p] = "DONE"
        /\ log[p].storeAtStart # << >>
        /\ batch_to_append[p] # << >>
        /\ store = log[p].storeAtStart \o batch_to_append[p]

\* C16: the index is read once, after connecting and before the first page
\* request; it is the set of the truthy Object IDs of the store's rows at
\* that moment, and paging does not change it: the ids queued in the batch
\* are not added.
C16_IndexReadOnce ==
    \A p \in Procs :
        LET atStart == { r.ObjectID : r \in Elems(log[p].storeAtStart) } \ { Falsy }
        IN  /\ pc[p] \in {"INIT", "CONNECTING", "INDEXING"} =>
                   log[p].indexReads = 0 /\ log[p].requested = << >>
            /\ log[p].requested # << >> => log[p].indexReads = 1
            /\ PagingOver(p) \/ pc[p] = "PAGING" =>
                   /\ log[p].indexReads = 1
                   /\ existing_ids[p] = atStart
                   /\ Falsy \notin existing_ids[p]

C16_Witness ==
    \E p \in Procs :
        /\ pc[p] = "UPLOADING"
        /\ \E r \in Elems(log[p].storeAtStart) : r.ObjectID = Falsy
        /\ existing_ids[p] # {}
        /\ \E r \in Elems(batch_to_append[p]) :
               Truthy(r.ObjectID) /\ r.ObjectID \notin existing_ids[p]

\* ------------------------------------------------------------ termination
RequestsInOrder(p) ==
    /\ Len(log[p].requested) <= max_articles \div page_size
    /\ \A i \in 1..Len(log[p].requested) : log[p].requested[i] = (i - 1) * page_size

\* C17: every run terminates: it makes at most max_articles / page_size = 5
\* page requests, at the offsets 0, 10, 20, 30, 40 in this order, none twice,
\* and then reaches a terminal state, whatever the API returns or fails.
C17_RunTerminates ==
    /\ [](\A p \in Procs : RequestsInOrder(p))
    /\ \A p \in Procs : (pc[p] = "CONNECTING") ~> (pc[p] \in Terminal)

C17_Witness ==
    \E p \in Procs :
        /\ pc[p] = "DONE"
        /\ log[p].requested = << 0, 10, 20, 30, 40 >>

\* ------------------------------------------------------------ concurrent runs
CountOf(rows, x) == Cardinality({ i \in 1..Len(rows) : rows[i].ObjectID = x })

IdsOf(rows) == { rows[i].ObjectID : i \in 1..Len(rows) }

\* C18: with two runs at once the store can come to hold two rows with the
\* same Object ID (C18_Witness is such a state), and a step makes an Object
\* ID double only in this way: a run uploads a row for an id that was not in
\* the index it read and that another run has appended since.
C18_DuplicateOnlyByStaleIndex ==
    [][ \A x \in IdsOf(store') \ { Falsy } :
            (CountOf(store', x) >= 2 /\ CountOf(store, x) < 2) =>
                \E p \in Procs :
                    /\ pc[p] = "UPLOADING"
                    /\ pc'[p] = "DONE"
                    /\ x \notin existing_ids[p]
                    /\ x \in IdsOf(batch_to_append[p])
                    /\ x \in IdsOf(store)
                    /\ x \notin IdsOf(log[p].storeAtStart) ]_vars

C18_Witness ==
    \E x \in IdsOf(store) \ { Falsy } :
        /\ CountOf(store, x) = 2
        /\ Cardinality({ i \in 1..Len(results) : results[i].id = x }) = 1
        /\ \A p \in Procs :
               /\ pc[p] = "DONE"
               /\ x \notin existing_ids[p]
               /\ Len(log[p].appended) = 1
               /\ x \in IdsOf(log[p].appended[1])

====
